---- MODULE Spec2Model ----
(***************************************************************************)
(* A model of src/main.py: the /transcript endpoint.  One request is       *)
(* followed from its arrival to its response record: the URL resolver      *)
(* (extract_video_id), the listing call, the manual and generated          *)
(* selection blocks with their fetch calls, the response shaping and the   *)
(* exception handlers.  Python str values are TLA+ strings, an Optional    *)
(* value is the empty tuple (None) or a one-element tuple.                 *)
(***************************************************************************)
EXTENDS Integers, Sequences, FiniteSets, TLC

\* ------------------------------------------------------------- bounds ----

\* The longest descriptor list the retrieval service returns.
MaxList == 2

\* The most segments a fetch returns.
MaxSegs == 2

\* ------------------------------------------------------ Python values ----

None == <<>>

Some(v) == <<v>>

\* Python truthiness of an Optional[str]: None and "" are falsy.
TruthyStr(o) == o # None /\ Len(o[1]) > 0

\* Python truthiness of an Optional[list]: None and [] are falsy.
TruthyList(o) == o # None /\ Len(o[1]) > 0

At(s, i) == SubSeq(s, i, i)

SetMin(S) == CHOOSE m \in S : \A n \in S : m <= n

\* str.endswith
EndsWith(s, suffix) ==
    /\ Len(s) >= Len(suffix)
    /\ SubSeq(s, Len(s) - Len(suffix) + 1, Len(s)) = suffix

\* str.replace(old, new): the non-overlapping occurrences of old, scanned
\* from the left, are each replaced.
RECURSIVE ReplaceFrom(_, _, _, _)
ReplaceFrom(s, old, new, i) ==
    IF i > Len(s) THEN ""
    ELSE IF i + Len(old) - 1 <= Len(s) /\ SubSeq(s, i, i + Len(old) - 1) = old
         THEN new \o ReplaceFrom(s, old, new, i + Len(old))
         ELSE At(s, i) \o ReplaceFrom(s, old, new, i + 1)

Replace(s, old, new) == ReplaceFrom(s, old, new, 1)

\* " ".join(parts)
RECURSIVE JoinSpace(_)
JoinSpace(parts) ==
    IF Len(parts) = 0 THEN ""
    ELSE IF Len(parts) = 1 THEN parts[1]
    ELSE parts[1] \o " " \o JoinSpace(Tail(parts))

\* ------------------------------------------------------- URL resolver ----

\* The patterns with the two host-anchored rules moved to the front.
patterns_shorts_first ==
    << << "youtube.com/shorts/" >>,
       << "youtube.com/live/" >>,
       << "v=", "/videos/", "embed/", "youtu.be/", "/v/", "/e/", "watch?v=", "&v=" >> >>

\* The alternatives of each pattern's leading group, in the order written,
\* with the regex escapes removed.  A "." is the regex wildcard (no
\* alternative holds an escaped dot).
patterns ==
    << << "v=", "/videos/", "embed/", "youtu.be/", "/v/", "/e/", "watch?v=", "&v=" >>,
       << "youtube.com/shorts/" >>,
       << "youtube.com/live/" >> >>

\* The characters the capture group [^#\&\?]* refuses.
StopChars == {"#", "&", "?"}

\* One alternative matched at position i of s: each literal equals its
\* character, each "." matches any character but a newline.
MatchesAt(alt, s, i) ==
    /\ i + Len(alt) - 1 <= Len(s)
    /\ \A k \in 1..Len(alt) :
          IF At(alt, k) = "." THEN At(s, i + k - 1) # "\n"
          ELSE At(s, i + k - 1) = At(alt, k)

\* group(1): the greedy run of non-stop characters from position start.
\* The trailing .* matches whatever follows (possibly nothing), so it never
\* makes a match fail or shortens the capture.
Capture(s, start) ==
    LET stops == {k \in start..Len(s) : At(s, k) \in StopChars}
        last == IF stops = {} THEN Len(s) ELSE SetMin(stops) - 1
    IN SubSeq(s, start, last)

\* re.search(pattern, url): the leftmost position where an alternative
\* matches, the first such alternative in the order written; None when
\* there is none, else the capture.
Search(alts, s) ==
    LET hits == {i \in 1..Len(s) : \E a \in 1..Len(alts) : MatchesAt(alts[a], s, i)}
    IN IF hits = {} THEN None
       ELSE LET i == SetMin(hits)
                a == SetMin({b \in 1..Len(alts) : MatchesAt(alts[b], s, i)})
            IN Some(Capture(s, i + Len(alts[a])))

\* The for loop over the patterns: the first pattern that matches returns.
RECURSIVE ExtractFrom(_, _)
ExtractFrom(url, p) ==
    IF p > Len(patterns) THEN None
    ELSE IF Search(patterns[p], url) # None THEN Search(patterns[p], url)
    ELSE ExtractFrom(url, p + 1)

extract_video_id(url) == ExtractFrom(url, 1)

\* ------------------------------------------------ retrieval service ----

\* The exception classes the service raises, each with the classes an
\* except clause naming them catches.  "Exception" stands for any other
\* subclass of Exception.
Bases(cls) ==
    CASE cls = "TranscriptsDisabled" -> {"TranscriptsDisabled", "Exception"}
      [] cls = "NoTranscriptFound" -> {"NoTranscriptFound", "Exception"}
      [] OTHER -> {"Exception"}

IsInstance(exc, cls) == cls \in Bases(exc.cls)

\* What str(e) gives for an unexpected failure.
Messages == {"boom"}

Exceptions ==
    {[cls |-> "TranscriptsDisabled", msg |-> "Subtitles are disabled for this video"],
     [cls |-> "NoTranscriptFound", msg |-> "No transcripts were found"]}
    \cup {[cls |-> "Exception", msg |-> m] : m \in Messages}

NoExc == [cls |-> "", msg |-> ""]

LanguageCodes == {"en", "fr", "pt_generated"}

\* A transcript descriptor: language_code and is_generated.
Descriptors == [language_code : LanguageCodes, is_generated : BOOLEAN]

\* The lists list_transcripts may return, in the order the service gives.
TranscriptLists == UNION {[1..n -> Descriptors] : n \in 0..MaxList}

Words == <<"Hello", "world", "again">>

\* The segments a fetch may return: each carries a text (start and
\* duration are never read).
Segments(n) == [k \in 1..n |-> [text |-> Words[((k - 1) % Len(Words)) + 1]]]

Returned(v) == [raised |-> FALSE, exc |-> NoExc, value |-> v]

Raised(e) == [raised |-> TRUE, exc |-> e, value |-> <<>>]

ListOutcomes ==
    {Returned(tl) : tl \in TranscriptLists} \cup {Raised(e) : e \in Exceptions}

FetchOutcomes ==
    {Returned(Segments(n)) : n \in 0..MaxSegs} \cup {Raised(e) : e \in Exceptions}

\* ------------------------------------------------------------ requests ----

Hosts == {"https://www."}

Shapes ==
    {"youtube.com/watch?v=", "youtu.be/", "youtube.com/embed/", "youtube.com/v/",
     "youtube.com/e/", "youtube.com/shorts/", "youtube.com/live/"}

Ids == {"", "dQw4w9WgXcQ"}

Trailers == {"", "#t=42", "&t=42", "?v=other"}

ShapedURLs == {h \o m \o i \o t : h \in Hosts, m \in Shapes, i \in Ids, t \in Trailers}

OtherURLs ==
    {"", "not a url", "v=", "youtuXbe/abc", "https://vimeo.com/12345",
     "https://example.com/videos/7?x", "youtubeXcom/live/q&r"}

URLs == ShapedURLs \cup OtherURLs

\* ------------------------------------------------------------- handler ----

VARIABLES
    pc,               \* where the request is in get_transcript
    url,              \* the url query parameter
    video_id,         \* extract_video_id's result
    transcript_list,  \* the listing call's result
    found_transcript, \* Optional: the fetched segments
    language_code,    \* Optional: the language recorded with them
    is_generated,
    response,         \* Optional: the returned record
    raised,           \* Optional: an exception that left get_transcript
    listed,           \* the listing calls made: video id and outcome
    fetched           \* the fetch calls made: descriptor index and outcome

vars ==
    <<pc, url, video_id, transcript_list, found_transcript, language_code,
      is_generated, response, raised, listed, fetched>>

Failure(reason) ==
    [success |-> FALSE, fail_reason |-> Some(reason), language |-> None,
     transcript |-> None]

\* The success record with the transcript left unset.
Success_without_transcript(language, text) ==
    [success |-> TRUE, fail_reason |-> None, language |-> Some(language),
     transcript |-> None]

Success(language, text) ==
    [success |-> TRUE, fail_reason |-> None, language |-> Some(language),
     transcript |-> Some(text)]

\* if video_id is None
not_video_id_is_none(v) == v = None

\* if not video_id
not_video_id(v) == ~TruthyStr(v)

\* The outer except clauses with the catch-all written first.
outer_except_catch_all_first(exc) ==
    IF IsInstance(exc, "Exception") THEN Some(Failure("other: " \o exc.msg))
    ELSE IF IsInstance(exc, "TranscriptsDisabled")
         THEN Some(Failure("transcripts_disabled"))
    ELSE IF IsInstance(exc, "NoTranscriptFound")
         THEN Some(Failure("no_transcript_found_for_video"))
    ELSE None

\* The outer except clauses without the catch-all.
outer_except_no_catch_all(exc) ==
    IF IsInstance(exc, "TranscriptsDisabled") THEN Some(Failure("transcripts_disabled"))
    ELSE IF IsInstance(exc, "NoTranscriptFound")
         THEN Some(Failure("no_transcript_found_for_video"))
    ELSE None

\* The except clauses of the outer try, in order: the record returned, or
\* None when no clause catches.
outer_except(exc) ==
    IF IsInstance(exc, "TranscriptsDisabled") THEN Some(Failure("transcripts_disabled"))
    ELSE IF IsInstance(exc, "NoTranscriptFound")
         THEN Some(Failure("no_transcript_found_for_video"))
    ELSE IF IsInstance(exc, "Exception") THEN Some(Failure("other: " \o exc.msg))
    ELSE None

\* The inner blocks without their except clause: the failure propagates.
inner_except_reraise(exc) == FALSE

\* except Exception: pass, of the two inner try blocks.
inner_except(exc) == IsInstance(exc, "Exception")

\* [t for t in transcript_list if (not) t.is_generated], as indices into
\* transcript_list, in its order.
RECURSIVE FilterFrom(_, _, _)
FilterFrom(tl, gen, i) ==
    IF i > Len(tl) THEN <<>>
    ELSE IF tl[i].is_generated = gen THEN <<i>> \o FilterFrom(tl, gen, i + 1)
    ELSE FilterFrom(tl, gen, i + 1)

\* The manual filter with the flag test inverted.
manual_transcripts_inverted(tl) == FilterFrom(tl, TRUE, 1)

manual_transcripts(tl) == FilterFrom(tl, FALSE, 1)

generated_transcripts(tl) == FilterFrom(tl, TRUE, 1)

\* next((t for t in group if t.language_code == "en"), None): 0 for None.
RECURSIVE EnglishFrom(_, _, _)
EnglishFrom(tl, group, k) ==
    IF k > Len(group) THEN 0
    ELSE IF tl[group[k]].language_code = "en" THEN group[k]
    ELSE EnglishFrom(tl, group, k + 1)

english(tl, group) == EnglishFrom(tl, group, 1)

\* The group's first descriptor, English or not.
transcript_to_fetch_first(tl, group) == group[1]

\* The descriptor a non-empty group gives to fetch: the English one, else
\* group[0].
transcript_to_fetch(tl, group) ==
    IF english(tl, group) # 0 THEN english(tl, group) ELSE group[1]

\* The language recorded after the manual fetch returns.
manual_language(tl, group) ==
    IF english(tl, group) # 0 THEN "en" ELSE tl[group[1]].language_code

\* The language recorded after the generated fetch returns.
generated_language(tl, group) ==
    IF english(tl, group) # 0 THEN "en_generated"
    ELSE tl[group[1]].language_code \o "_generated"

\* final_language_code
final_language_code(lc, gen) ==
    IF gen /\ ~EndsWith(lc, "_generated") THEN lc \o "_generated"
    ELSE IF ~gen /\ EndsWith(lc, "_generated") THEN Replace(lc, "_generated", "")
    ELSE lc

\* " ".join([item["text"] for item in found_transcript])
transcript_text(segments) ==
    JoinSpace([k \in 1..Len(segments) |-> segments[k].text])

Init ==
    /\ pc = "idle"
    /\ url = ""
    /\ video_id = None
    /\ transcript_list = <<>>
    /\ found_transcript = None
    /\ language_code = None
    /\ is_generated = FALSE
    /\ response = None
    /\ raised = None
    /\ listed = <<>>
    /\ fetched = <<>>

\* An exception reaches the outer try's except clauses.
Propagate(exc) ==
    IF outer_except(exc) # None
    THEN response' = outer_except(exc) /\ pc' = "done" /\ raised' = raised
    ELSE response' = response /\ pc' = "raised" /\ raised' = Some(exc)

\* The request arrives: the resolver runs, and an unresolved url is
\* answered at once.
GetTranscript(u) ==
    /\ pc = "idle"
    /\ url' = u
    /\ video_id' = extract_video_id(u)
    /\ IF not_video_id(extract_video_id(u))
       THEN response' = Some(Failure("invalid_url")) /\ pc' = "done"
       ELSE response' = response /\ pc' = "list"
    /\ UNCHANGED <<transcript_list, found_transcript, language_code, is_generated,
                   raised, listed, fetched>>

\* ytt_api.list_transcripts(video_id), with whatever the service does.
ListTranscripts(outcome) ==
    /\ pc = "list"
    /\ listed' = Append(listed, [video_id |-> video_id[1], outcome |-> outcome])
    /\ IF outcome.raised
       THEN Propagate(outcome.exc) /\ transcript_list' = transcript_list
       ELSE /\ transcript_list' = outcome.value
            /\ pc' = "manual"
            /\ UNCHANGED <<response, raised>>
    /\ UNCHANGED <<url, video_id, found_transcript, language_code, is_generated, fetched>>

\* One selection block: the fetch of the group's descriptor, the
\* assignments after it, and the block's except clause.
TryGroup(group, language, gen, outcome, next) ==
    IF group = <<>>
    THEN /\ pc' = next
         /\ UNCHANGED <<found_transcript, language_code, is_generated, response,
                        raised, fetched>>
    ELSE /\ fetched' = Append(fetched,
                [idx |-> transcript_to_fetch(transcript_list, group), outcome |-> outcome])
         /\ IF ~outcome.raised
            THEN /\ found_transcript' = Some(outcome.value)
                 /\ language_code' = Some(language)
                 /\ is_generated' = gen
                 /\ pc' = next
                 /\ UNCHANGED <<response, raised>>
            ELSE /\ UNCHANGED <<found_transcript, language_code, is_generated>>
                 /\ IF inner_except(outcome.exc)
                    THEN pc' = next /\ UNCHANGED <<response, raised>>
                    ELSE Propagate(outcome.exc)

\* The manual block.
TryManual(outcome) ==
    /\ pc = "manual"
    /\ TryGroup(manual_transcripts(transcript_list),
                manual_language(transcript_list, manual_transcripts(transcript_list)),
                FALSE, outcome, "generated")
    /\ UNCHANGED <<url, video_id, transcript_list, listed>>

\* The generated block without the if not found_transcript guard.
TryGenerated_unguarded(outcome) ==
    /\ pc = "generated"
    /\ TryGroup(generated_transcripts(transcript_list),
                generated_language(transcript_list,
                                   generated_transcripts(transcript_list)),
                TRUE, outcome, "respond")
    /\ UNCHANGED <<url, video_id, transcript_list, listed>>

\* if not found_transcript: the generated block.
TryGenerated(outcome) ==
    /\ pc = "generated"
    /\ IF ~TruthyList(found_transcript)
       THEN TryGroup(generated_transcripts(transcript_list),
                     generated_language(transcript_list,
                                        generated_transcripts(transcript_list)),
                     TRUE, outcome, "respond")
       ELSE /\ pc' = "respond"
            /\ UNCHANGED <<found_transcript, language_code, is_generated, response,
                           raised, fetched>>
    /\ UNCHANGED <<url, video_id, transcript_list, listed>>

\* if found_transcript: ... else: ...
Respond ==
    /\ pc = "respond"
    /\ response' =
          IF TruthyList(found_transcript)
          THEN Some(Success(final_language_code(language_code[1], is_generated),
                            transcript_text(found_transcript[1])))
          ELSE Some(Failure("no_transcript_available"))
    /\ pc' = "done"
    /\ UNCHANGED <<url, video_id, transcript_list, found_transcript, language_code,
                   is_generated, raised, listed, fetched>>

Next ==
    \/ \E u \in URLs : GetTranscript(u)
    \/ \E outcome \in ListOutcomes : ListTranscripts(outcome)
    \/ \E outcome \in FetchOutcomes : TryManual(outcome)
    \/ \E outcome \in FetchOutcomes : TryGenerated(outcome)
    \/ Respond

Spec == Init /\ [][Next]_vars

\* The handler is straight-line code: a step that can be taken is taken.
FairSpec == Spec /\ WF_vars(Next)

\* -------------------------------------------------------------- claims ----

Done == pc = "done"

Answer == response[1]

Succeeded == Done /\ response # None /\ Answer.success

ListReturned == Len(listed) = 1 /\ ~listed[1].outcome.raised

ListRaised == Len(listed) = 1 /\ listed[1].outcome.raised

\* A call that returned at least one segment.
Good(call) == ~call.outcome.raised /\ Len(call.outcome.value) > 0

HasManual == \E i \in 1..Len(transcript_list) : ~transcript_list[i].is_generated

HasGenerated == \E i \in 1..Len(transcript_list) : transcript_list[i].is_generated

\* The descriptor of the k-th fetch call.
Fetched(k) == transcript_list[fetched[k].idx]

\* The descriptor whose segments a successful response carries: the one
\* fetched last.
Source == Fetched(Len(fetched))

StartsWith(s, prefix) == Len(s) >= Len(prefix) /\ SubSeq(s, 1, Len(prefix)) = prefix

\* C1 as stated: with a manual descriptor listed, a success is always built
\* from a manual descriptor and its language never ends in _generated,
\* whatever the fetch calls do.
C1_SuccessAlwaysFromManual ==
    (Succeeded /\ ListReturned /\ HasManual) =>
        /\ ~Source.is_generated
        /\ ~EndsWith(Answer.language[1], "_generated")

\* C1 amended: with a manual descriptor listed, the first fetch is of a
\* manual descriptor; when it returns at least one segment the response is
\* a success built from it alone, with no _generated suffix; when it fails
\* or returns no segments, a success is built from a generated descriptor
\* and carries the suffix.
C1_ManualPreferredWhenFetched ==
    (Done /\ ListReturned /\ HasManual) =>
        /\ Len(fetched) >= 1
        /\ ~Fetched(1).is_generated
        /\ Good(fetched[1]) =>
              /\ Succeeded
              /\ Len(fetched) = 1
              /\ ~EndsWith(Answer.language[1], "_generated")
        /\ (~Good(fetched[1]) /\ Succeeded) =>
              /\ Len(fetched) = 2
              /\ Source.is_generated
              /\ Good(fetched[2])
              /\ EndsWith(Answer.language[1], "_generated")

\* A manual French transcript is served although an English generated one
\* is listed.
C1_Witness ==
    /\ Succeeded
    /\ Len(transcript_list) = 2
    /\ transcript_list[1] = [language_code |-> "fr", is_generated |-> FALSE]
    /\ transcript_list[2] = [language_code |-> "en", is_generated |-> TRUE]
    /\ Answer.language = Some("fr")

\* C2: a returned record is either a success with no fail_reason and with
\* language and transcript set, or a failure with a fail_reason and with
\* neither language nor transcript; and a finished request has a record.
C2_ResponseShape ==
    /\ Done => response # None
    /\ response # None =>
          \/ /\ Answer.success
             /\ Answer.fail_reason = None
             /\ Answer.language # None
             /\ Answer.transcript # None
          \/ /\ ~Answer.success
             /\ Answer.fail_reason # None
             /\ Answer.language = None
             /\ Answer.transcript = None

\* A success record has been returned.
C2_Witness == Succeeded /\ Answer.transcript = Some("Hello world")

\* The reason the claim gives for a failed listing.
ListingReason(exc) ==
    CASE exc.cls = "TranscriptsDisabled" -> "transcripts_disabled"
      [] exc.cls = "NoTranscriptFound" -> "no_transcript_found_for_video"
      [] OTHER -> "other: " \o exc.msg

\* C3: a failed listing call (made with the resolved video id) is answered
\* with the reason of its signal, and no fetch call is made.
C3_ListingFailure ==
    ListRaised =>
        /\ listed[1].video_id = video_id[1]
        /\ Done
        /\ response # None
        /\ ~Answer.success
        /\ Answer.fail_reason = Some(ListingReason(listed[1].outcome.exc))
        /\ fetched = <<>>

\* The listing call failed with an unexpected error.
C3_Witness ==
    /\ ListRaised
    /\ listed[1].outcome.exc = [cls |-> "Exception", msg |-> "boom"]
    /\ Answer.fail_reason = Some("other: boom")

\* An unexpected failure: neither of the two named signals.
Unexpected(outcome) == outcome.raised /\ outcome.exc.cls = "Exception"

\* C4 as stated: an unexpected failure of the listing call or of a fetch
\* call is answered with other: <message>.
C4_EveryFailureIsOther ==
    Done =>
        /\ (ListRaised /\ Unexpected(listed[1].outcome)) =>
              Answer.fail_reason = Some("other: " \o listed[1].outcome.exc.msg)
        /\ \A k \in 1..Len(fetched) :
              Unexpected(fetched[k].outcome) =>
                 Answer.fail_reason = Some("other: " \o fetched[k].outcome.exc.msg)

\* C4 amended: an unexpected failure of the listing call is answered with
\* other: <message>, and this is the only origin of that reason; a failure
\* of a fetch call is swallowed: the request ends in a success built from a
\* later fetch that returned segments, or in no_transcript_available.
C4_OnlyListingFailureIsOther ==
    Done =>
        /\ (ListRaised /\ Unexpected(listed[1].outcome)) =>
              /\ ~Answer.success
              /\ Answer.fail_reason = Some("other: " \o listed[1].outcome.exc.msg)
        /\ (Answer.fail_reason # None /\ StartsWith(Answer.fail_reason[1], "other: ")) =>
              /\ ListRaised
              /\ Unexpected(listed[1].outcome)
              /\ fetched = <<>>
        /\ \A k \in 1..Len(fetched) :
              fetched[k].outcome.raised =>
                 IF k < Len(fetched) /\ Good(fetched[Len(fetched)])
                 THEN Answer.success /\ Source.is_generated
                 ELSE Answer.fail_reason = Some("no_transcript_available")

\* The only fetch made failed unexpectedly and the request ended in
\* no_transcript_available.
C4_Witness ==
    /\ Done
    /\ Len(fetched) = 1
    /\ Unexpected(fetched[1].outcome)
    /\ Answer.fail_reason = Some("no_transcript_available")

\* The reference policy over a non-empty list: the index of the English
\* manual descriptor, else of the first manual one, else of the English
\* generated one, else of the first generated one.
FirstIndex(S) == CHOOSE i \in S : \A j \in S : i <= j

Reference(tl) ==
    LET manual == {i \in 1..Len(tl) : ~tl[i].is_generated}
        generated == {i \in 1..Len(tl) : tl[i].is_generated}
        en(S) == {i \in S : tl[i].language_code = "en"}
    IN IF en(manual) # {} THEN FirstIndex(en(manual))
       ELSE IF manual # {} THEN FirstIndex(manual)
       ELSE IF en(generated) # {} THEN FirstIndex(en(generated))
       ELSE FirstIndex(generated)

\* C5: when listing returns and every fetch returns at least one segment,
\* the response is built from the descriptor of the reference policy; an
\* empty list is answered with no_transcript_available.
C5_ReferencePolicy ==
    (Done /\ ListReturned /\ \A k \in 1..Len(fetched) : Good(fetched[k])) =>
        IF transcript_list = <<>>
        THEN response = Some(Failure("no_transcript_available")) /\ fetched = <<>>
        ELSE /\ Succeeded
             /\ Len(fetched) = 1
             /\ fetched[1].idx = Reference(transcript_list)

\* With two generated descriptors, the English one, listed second, is used.
C5_Witness ==
    /\ Succeeded
    /\ Len(transcript_list) = 2
    /\ transcript_list[1] = [language_code |-> "fr", is_generated |-> TRUE]
    /\ transcript_list[2] = [language_code |-> "en", is_generated |-> TRUE]
    /\ fetched[1].idx = 2
    /\ Answer.language = Some("en_generated")

\* C6 as stated: at most one listing call, then at most one fetch call.
C6_SingleFetch ==
    /\ Len(listed) <= 1
    /\ Len(fetched) <= 1
    /\ fetched # <<>> => ListReturned

\* C6 amended: at most one listing call, then at most two fetch calls: one
\* of a manual descriptor and, only when that one failed or returned no
\* segments (or no manual descriptor is listed), one of a generated
\* descriptor; no descriptor is fetched twice.
C6_AtMostTwoFetches ==
    /\ Len(listed) <= 1
    /\ Len(fetched) <= 2
    /\ fetched # <<>> => ListReturned
    /\ Len(fetched) = 2 =>
          /\ ~Fetched(1).is_generated
          /\ Fetched(2).is_generated
          /\ ~Good(fetched[1])
    /\ (Len(fetched) = 1 /\ Good(fetched[1])) => pc \in {"generated", "respond", "done"}

\* A second fetch was made after the manual fetch failed.
C6_Witness ==
    /\ Done
    /\ Len(fetched) = 2
    /\ fetched[1].outcome.raised
    /\ Good(fetched[2])

\* C7: whatever the service does, a request that has arrived ends with a
\* response record, and no exception leaves get_transcript.
C7_AlwaysAnswered ==
    (pc # "idle") ~> (Done /\ response # None /\ raised = None)

\* Both fetch calls raised and the request was still answered.
C7_Witness ==
    /\ Done
    /\ response # None
    /\ Len(fetched) = 2
    /\ fetched[1].outcome.raised
    /\ fetched[2].outcome.raised

\* Every alternative of every pattern rule.
Markers ==
    {"v=", "/videos/", "embed/", "youtu.be/", "/v/", "/e/", "watch?v=", "&v=",
     "youtube.com/shorts/", "youtube.com/live/"}

Rule1Markers == Markers \ {"youtube.com/shorts/", "youtube.com/live/"}

\* The marker m, read as the regex it is, occurs at position i of s.
OccursAt(m, s, i) ==
    /\ i + Len(m) - 1 <= Len(s)
    /\ \A k \in 1..Len(m) :
          \/ SubSeq(m, k, k) = SubSeq(s, i + k - 1, i + k - 1)
          \/ SubSeq(m, k, k) = "." /\ SubSeq(s, i + k - 1, i + k - 1) # "\n"

Occurs(ms, s) == \E m \in ms : \E i \in 1..Len(s) : OccursAt(m, s, i)

InvalidUrlAnswer == response = Some(Failure("invalid_url"))

\* C8 as stated: the resolver step answers invalid_url exactly when no rule
\* matches in the url, and whenever a rule matches the identifier is
\* non-empty and the request goes on to the listing call with it.
C8_InvalidIffNoMatch ==
    [][pc = "idle" =>
          /\ InvalidUrlAnswer' <=> ~Occurs(Markers, url')
          /\ Occurs(Markers, url') => (TruthyStr(video_id') /\ pc' = "list")]_vars

\* C8 amended: invalid_url exactly when no rule matches in the url or the
\* first matching rule captures the empty string; the resolver yields None
\* exactly when no rule matches; a non-empty capture goes on to the listing
\* call, which is made with it; no later step answers invalid_url.
C8_InvalidIffNoMatchOrEmpty ==
    [][/\ pc = "idle" =>
             /\ video_id' = None <=> ~Occurs(Markers, url')
             /\ InvalidUrlAnswer' <=> (~Occurs(Markers, url') \/ video_id' = Some(""))
             /\ InvalidUrlAnswer' => (pc' = "done" /\ listed' = <<>>)
             /\ TruthyStr(video_id') => pc' = "list"
       /\ pc # "idle" =>
             /\ url' = url
             /\ video_id' = video_id
             /\ InvalidUrlAnswer' <=> InvalidUrlAnswer
       /\ pc = "list" =>
             /\ TruthyStr(video_id)
             /\ Len(listed') = 1
             /\ listed'[1].video_id = video_id[1]]_vars

\* A url whose marker is followed by nothing is answered invalid_url.
C8_Witness ==
    /\ url = "https://www.youtu.be/"
    /\ video_id = Some("")
    /\ InvalidUrlAnswer

\* The characters of s up to, and excluding, the first #, & or ?.
RECURSIVE UpToStop(_)
UpToStop(s) ==
    IF Len(s) = 0 \/ SubSeq(s, 1, 1) \in {"#", "&", "?"} THEN ""
    ELSE SubSeq(s, 1, 1) \o UpToStop(SubSeq(s, 2, Len(s)))

\* What follows the leftmost occurrence of a marker of ms in s.
AfterLeftmost(ms, s) ==
    LET hits == {h \in (1..Len(s)) \X ms : OccursAt(h[2], s, h[1])}
        first == CHOOSE h \in hits : \A g \in hits : h[1] <= g[1]
    IN SubSeq(s, first[1] + Len(first[2]), Len(s))

HostAnchored == {"youtube.com/shorts/", "youtube.com/live/"}

C10_LanguageLossless ==
    /\ (pc = "respond" /\ TruthyList(found_transcript)) =>
          ~(~is_generated /\ EndsWith(language_code[1], "_generated"))
    /\ Succeeded =>
          Answer.language =
             Some(IF Source.is_generated
                  THEN Source.language_code \o "_generated"
                  ELSE Source.language_code)

====
